---- MODULE Spec2Model ----
(***************************************************************************)
(* Heart-rate stabilizer and per-user service of vibesense-agent.          *)
(*                                                                         *)
(* Rates are Python floats.  Raw rates are modelled as integers and every  *)
(* rate held in a HeartState is an integer count of 1/Scale bpm, so that   *)
(* the rolling mean sum/len of at most five integer samples is exact.      *)
(* Timestamps are whole seconds read from a clock that the ingest reads    *)
(* once per call (time.time()).                                            *)
(* Python's None is the string None for optional scalars and the records   *)
(* NoState / NoCtx for an absent HeartState / HeartUserContext.            *)
(***************************************************************************)
EXTENDS Integers, Sequences, FiniteSets, TLC

VARIABLES
    now,            \* the value time.time() returned last
    config,         \* HeartService._config, shared by every stabilizer
    contexts,       \* HeartService._contexts : user key -> HeartUserContext
    last,           \* observation of the most recent ingest call
    publish_count,  \* per user key: how many pushes have published
    ningest,        \* number of ingest calls made
    history,        \* per user key: the samples pushed into its current stabilizer
    created,        \* per user key: how many pairs _context has constructed
    resets,         \* per user key: number of reset calls
    seen,           \* observation of the most recent latest call
    probe,          \* rates handed to the zone classifiers and their answers
    steady,         \* the raw rate every later sample of a steady run carries
    nsteady,        \* number of samples of the steady run pushed so far
    calls,          \* the /ingest requests received, in order of arrival
    inflight,       \* indices in calls of the requests whose ingest has not run yet
    served,         \* indices in calls of the requests in the order ingest ran
    legacy,         \* repository and stabilizer of the bus-backed heart_service
    bus,            \* HeartEventBus._queue
    polled,         \* the events poll() has handed out, oldest first
    mcp_state,      \* the module global state of src/heart_mcp.py
    event_queue,    \* the module global event_queue of src/heart_mcp.py
    replies,        \* the bodies POST /ingest of src/heart_mcp.py answered with
    forwarder,      \* HeartEventForwarder._loop: whether its task runs, and last_ts
    sent,           \* what _loop handed to agent_app.send, oldest first
    agent_fwd,      \* forward_heart_events of src/agent.py: whether it runs, last_ts
    agent_taken,    \* the events forward_heart_events took from event_queue
    agent_sent,     \* what forward_heart_events handed to agent_app.send
    api_reply       \* how POST /ingest of the package answered the latest request

vars == <<now, config, contexts, last, publish_count, ningest,
          history, created, resets, seen, probe, steady, nsteady,
          calls, inflight, served, legacy, bus, polled,
          mcp_state, event_queue, replies,
          forwarder, sent, agent_fwd, agent_taken, agent_sent, api_reply>>

\* The bus-backed service of src/heart_core.py.
bus_vars == <<legacy, bus, polled>>

\* The requests in flight on the event loop.
call_vars == <<calls, inflight, served>>

\* The ingestion boundary of src/heart_mcp.py.
mcp_vars == <<mcp_state, event_queue, replies>>

\* The two event forwarders.
fwd_vars == <<forwarder, sent, agent_fwd, agent_taken, agent_sent>>

\* What the service's own operations leave alone.
aux == <<steady, nsteady, call_vars, bus_vars, mcp_vars, fwd_vars, api_reply>>

-----------------------------------------------------------------------------
(* Bounds of the model *)

MaxIngests == 3
StartTime == 100
MaxResets == 1
MaxSteady == 26

\* Seconds the clock may advance between two reads.
ClockSteps == {1, 10}

\* Clock advances of the worked examples.
ScenarioClockSteps == {1, 10, 12}

\* Raw rates offered to the service.
Rates == {55, 85, 95}

\* Raw rates of the worked examples (default configuration).
ScenarioRates == {70, 72, 78, 80, 85, 95, 120}

-----------------------------------------------------------------------------
(* Values *)

None == "None"
NoState == [none |-> TRUE]
NoCtx == [absent |-> TRUE]
NoCall == [nocall |-> TRUE]

DEFAULT_USER == "default"

UserKeys == {DEFAULT_USER, "alice"}

\* 60 = lcm(1..5): every mean of at most five integers is a multiple of 1/60.
Scale == 3 * 4 * 5

Abs(x) == IF x < 0 THEN -x ELSE x

Truthy(s) == s # None /\ s # ""

\* HeartStabilizerConfig()
DefaultConfig ==
    [smoothing_window |-> 5,
     min_bpm_delta |-> 5,
     min_seconds_between_updates |-> 8,
     min_zone_dwell |-> 20,
     fast_zone_delta |-> 12]

\* A second configuration a HeartService may be constructed with.
TightConfig ==
    [smoothing_window |-> 2,
     min_bpm_delta |-> 8,
     min_seconds_between_updates |-> 2,
     min_zone_dwell |-> 11,
     fast_zone_delta |-> 16]

\* deque(maxlen=0) is accepted by the constructor and never holds a sample.
ZeroWindowConfig == [DefaultConfig EXCEPT !.smoothing_window = 0]

Configs == {DefaultConfig, TightConfig, ZeroWindowConfig}

\* HeartIngestRequest bodies offered to ingest.
PlainExtras ==
    [mood |-> None, hrv_ms |-> None, workout_type |-> None,
     resting_hr |-> None, time_of_day |-> None]

FullExtras ==
    [mood |-> "calm", hrv_ms |-> "45.0", workout_type |-> "running",
     resting_hr |-> "58.0", time_of_day |-> "evening"]

Request(bpm, user_id, x) ==
    [bpm |-> bpm, mood |-> x.mood, user_id |-> user_id, hrv_ms |-> x.hrv_ms,
     workout_type |-> x.workout_type, resting_hr |-> x.resting_hr,
     time_of_day |-> x.time_of_day]

\* The default user sends bare samples, alice sends full ones, and both send
\* the middle rate either way.
Requests ==
    { Request(b, u, PlainExtras) : b \in Rates, u \in {None, "", DEFAULT_USER} }
      \cup { Request(b, "alice", FullExtras) : b \in Rates }
      \cup { Request(85, None, FullExtras), Request(85, "alice", PlainExtras) }

ScenarioRequests == { Request(b, None, PlainExtras) : b \in ScenarioRates }

-----------------------------------------------------------------------------
(* Pure helpers *)

time_of_day_bucket(ts) ==
    LET hour == (ts \div 3600) % 24
    IN  IF 5 <= hour /\ hour < 12 THEN "morning"
        ELSE IF 12 <= hour /\ hour < 17 THEN "afternoon"
        ELSE IF 17 <= hour /\ hour < 22 THEN "evening"
        ELSE "night"

\* HeartState.zone on a rate in 1/Scale bpm.
ZoneBoundaryInclusive(bpm) ==
    IF bpm <= 60 * Scale THEN "rest"
    ELSE IF bpm <= 90 * Scale THEN "light"
    ELSE IF bpm <= 120 * Scale THEN "moderate"
    ELSE IF bpm <= 150 * Scale THEN "hard"
    ELSE IF bpm <= 180 * Scale THEN "peak"
    ELSE IF bpm <= 200 * Scale THEN "redline"
    ELSE "supra"

\* A table with two labels in each other's place.
ZoneSwapped(bpm) ==
    IF bpm < 60 * Scale THEN "rest"
    ELSE IF bpm < 90 * Scale THEN "light"
    ELSE IF bpm < 120 * Scale THEN "hard"
    ELSE IF bpm < 150 * Scale THEN "moderate"
    ELSE IF bpm < 180 * Scale THEN "peak"
    ELSE IF bpm < 200 * Scale THEN "redline"
    ELSE "supra"

\* The table without the bands above 150.
ZoneFiveBands(bpm) ==
    IF bpm < 60 * Scale THEN "rest"
    ELSE IF bpm < 90 * Scale THEN "light"
    ELSE IF bpm < 120 * Scale THEN "moderate"
    ELSE IF bpm < 150 * Scale THEN "hard"
    ELSE "peak"

Zone(bpm) ==
    IF bpm < 60 * Scale THEN "rest"
    ELSE IF bpm < 90 * Scale THEN "light"
    ELSE IF bpm < 120 * Scale THEN "moderate"
    ELSE IF bpm < 150 * Scale THEN "hard"
    ELSE IF bpm < 180 * Scale THEN "peak"
    ELSE IF bpm < 200 * Scale THEN "redline"
    ELSE "supra"

\* HeartState.zone of the bus-backed service (src/heart_core.py).
ZoneCore(bpm) ==
    IF bpm < 60 * Scale THEN "rest"
    ELSE IF bpm < 90 * Scale THEN "light"
    ELSE IF bpm < 120 * Scale THEN "moderate"
    ELSE IF bpm < 150 * Scale THEN "hard"
    ELSE IF bpm < 180 * Scale THEN "peak"
    ELSE IF bpm < 200 * Scale THEN "redline"
    ELSE "supra"

\* A direct-suggestion classifier that stops at peak.
ComputeZoneStopsAtPeak(bpm) ==
    IF bpm < 60 * Scale THEN "rest"
    ELSE IF bpm < 90 * Scale THEN "light"
    ELSE IF bpm < 120 * Scale THEN "moderate"
    ELSE IF bpm < 150 * Scale THEN "hard"
    ELSE "peak"

\* _compute_zone of the /suggest endpoint.
_compute_zone(bpm) ==
    IF bpm < 60 * Scale THEN "rest"
    ELSE IF bpm < 90 * Scale THEN "light"
    ELSE IF bpm < 120 * Scale THEN "moderate"
    ELSE IF bpm < 150 * Scale THEN "hard"
    ELSE IF bpm < 180 * Scale THEN "peak"
    ELSE IF bpm < 200 * Scale THEN "redline"
    ELSE "supra"

\* HeartState.zone of src/heart_mcp.py.
ZoneMcp(bpm) ==
    IF bpm < 60 * Scale THEN "rest"
    ELSE IF bpm < 90 * Scale THEN "light"
    ELSE IF bpm < 120 * Scale THEN "moderate"
    ELSE IF bpm < 150 * Scale THEN "hard"
    ELSE "peak"

\* HeartState.zone of src/heart_api.py.
ZoneApi(bpm) ==
    IF bpm < 60 * Scale THEN "rest"
    ELSE IF bpm < 90 * Scale THEN "light"
    ELSE IF bpm < 120 * Scale THEN "moderate"
    ELSE IF bpm < 150 * Scale THEN "hard"
    ELSE "peak"

\* HeartState.inferred_mood of the bus-backed service (src/heart_core.py):
\* the override when it is truthy, else the default mood of the zone.
inferred_mood(mood, bpm) ==
    IF Truthy(mood) THEN mood
    ELSE CASE ZoneCore(bpm) = "rest" -> "chill"
           [] ZoneCore(bpm) = "light" -> "focus"
           [] ZoneCore(bpm) = "moderate" -> "upbeat"
           [] ZoneCore(bpm) = "hard" -> "hype"
           [] ZoneCore(bpm) = "peak" -> "intense"
           [] ZoneCore(bpm) = "redline" -> "max-energy"
           [] ZoneCore(bpm) = "supra" -> "steady-intense"
           [] OTHER -> "chill"

\* HeartState.playlist_hint of src/heart_core.py.
playlist_hint(bpm) ==
    CASE ZoneCore(bpm) = "rest" -> "calm acoustic or lo-fi"
      [] ZoneCore(bpm) = "light" -> "steady focus playlists"
      [] ZoneCore(bpm) = "moderate" -> "upbeat pop/indie"
      [] ZoneCore(bpm) = "hard" -> "high-energy workout"
      [] ZoneCore(bpm) = "peak" -> "max intensity anthems"
      [] ZoneCore(bpm) = "redline" -> "hard EDM or rock bangers"
      [] ZoneCore(bpm) = "supra" -> "sustain intensity without abrupt shifts"
      [] OTHER -> "chill"

\* HeartState.to_dto of src/heart_core.py.
to_dto_core(s) ==
    [bpm |-> s.bpm, zone |-> ZoneCore(s.bpm), mood |-> inferred_mood(s.mood, s.bpm),
     timestamp |-> s.timestamp, playlist_hint |-> playlist_hint(s.bpm)]

HeartState(bpm, user_id, mood, hrv_ms, workout_type, resting_hr, time_of_day, timestamp) ==
    [bpm |-> bpm, user_id |-> user_id, mood |-> mood, hrv_ms |-> hrv_ms,
     workout_type |-> workout_type, resting_hr |-> resting_hr,
     time_of_day |-> time_of_day, timestamp |-> timestamp]

\* A to_dto that resolves the mood the way the bus-backed service does.
ToDtoInferred(s) ==
    [user_id |-> s.user_id, bpm |-> s.bpm, zone |-> Zone(s.bpm),
     mood |-> inferred_mood(s.mood, s.bpm),
     timestamp |-> s.timestamp, playlist_hint |-> None, hrv_ms |-> s.hrv_ms,
     workout_type |-> s.workout_type, resting_hr |-> s.resting_hr,
     time_of_day |-> s.time_of_day]

to_dto(s) ==
    [user_id |-> s.user_id, bpm |-> s.bpm, zone |-> Zone(s.bpm), mood |-> s.mood,
     timestamp |-> s.timestamp, playlist_hint |-> None, hrv_ms |-> s.hrv_ms,
     workout_type |-> s.workout_type, resting_hr |-> s.resting_hr,
     time_of_day |-> s.time_of_day]

RECURSIVE SumBpm(_)
SumBpm(samples) ==
    IF samples = <<>> THEN 0 ELSE Head(samples).bpm + SumBpm(Tail(samples))

\* An append that never evicts.
DequeAppendUnbounded(samples, s, maxlen) == Append(samples, s)

\* deque(maxlen=n).append
\* A deque that, once full, refuses the new item instead of evicting the oldest.
DequeAppendKeepOldest(samples, x, maxlen) ==
    IF maxlen = 0 THEN <<>>
    ELSE IF Len(samples) < maxlen THEN Append(samples, x)
    ELSE samples

DequeAppend(samples, s, maxlen) ==
    IF maxlen = 0 THEN samples
    ELSE IF Len(samples) >= maxlen THEN Append(Tail(samples), s)
    ELSE Append(samples, s)

\* A stabilizer that reports the newest raw sample instead of the mean.
SmoothedBpmNewest(samples) ==
    IF samples = <<>> THEN 0 ELSE samples[Len(samples)].bpm * Scale

\* The mean taken with floor division (sum // len).
SmoothedBpmFloor(samples) ==
    IF samples = <<>> THEN 0 ELSE (SumBpm(samples) \div Len(samples)) * Scale

_smoothed_bpm(samples) ==
    IF samples = <<>> THEN 0 ELSE (SumBpm(samples) * Scale) \div Len(samples)

-----------------------------------------------------------------------------
(* HeartRateStabilizer *)

NewStabilizer == [samples |-> <<>>, latest |-> NoState, last_publish_ts |-> 0]

\* A _record that forgets to stamp the publish time.
RecordNoStamp(stab, state, ts) ==
    [stabilizer |-> [stab EXCEPT !.latest = state], ret |-> state]

\* A _record that stamps the time but does not keep the reading.
RecordKeepLatest(stab, state, ts) ==
    [stabilizer |-> [stab EXCEPT !.last_publish_ts = ts], ret |-> state]

\* A _record that keeps the time of the first publish as the publish time.
RecordFirstStamp(stab, state, ts) ==
    [stabilizer |-> [stab EXCEPT !.latest = state,
                                 !.last_publish_ts =
                                    IF stab.latest = NoState THEN ts
                                    ELSE stab.last_publish_ts],
     ret |-> state]

_record(stab, state, ts) ==
    [stabilizer |-> [stab EXCEPT !.latest = state, !.last_publish_ts = ts],
     ret |-> state]

\* The three guards of push, each TRUE when its `return None` is taken.
JitterOff(cfg, same_zone, delta) == FALSE

JitterInclusive(cfg, same_zone, delta) ==
    same_zone /\ delta <= cfg.min_bpm_delta * Scale

Jitter(cfg, same_zone, delta) ==
    same_zone /\ delta < cfg.min_bpm_delta * Scale

RateLimitOff(cfg, zone_changed, delta, time_since_last) == FALSE

RateLimitNoBypass(cfg, zone_changed, delta, time_since_last) ==
    time_since_last < cfg.min_seconds_between_updates

RateLimit(cfg, zone_changed, delta, time_since_last) ==
    /\ time_since_last < cfg.min_seconds_between_updates
    /\ ~(zone_changed /\ delta >= cfg.fast_zone_delta * Scale)

DwellOff(cfg, zone_changed, delta, time_since_last) == FALSE

\* A dwell rule that never expires.
DwellNoTimeout(cfg, zone_changed, delta, time_since_last) ==
    /\ zone_changed
    /\ delta < cfg.fast_zone_delta * Scale

Dwell(cfg, zone_changed, delta, time_since_last) ==
    /\ zone_changed
    /\ delta < cfg.fast_zone_delta * Scale
    /\ time_since_last < cfg.min_zone_dwell

\* The candidate push builds after appending the sample.
Candidate(samples, mood, user_id, hrv_ms, workout_type, resting_hr, time_of_day, ts) ==
    HeartState(_smoothed_bpm(samples), user_id, mood, hrv_ms, workout_type,
               resting_hr, time_of_day, ts)

\* A push that absorbs the first sample of a stabilizer without publishing it.
PushDropsFirst(stab, cfg, bpm, mood, user_id, hrv_ms, workout_type, resting_hr, time_of_day, ts) ==
    LET samples == DequeAppend(stab.samples, [ts |-> ts, bpm |-> bpm],
                               cfg.smoothing_window)
        s1 == [stab EXCEPT !.samples = samples]
        candidate == Candidate(samples, mood, user_id, hrv_ms, workout_type,
                               resting_hr, time_of_day, ts)
    IN  IF stab.latest = NoState /\ Len(stab.samples) = 0
          THEN [stabilizer |-> s1, ret |-> NoState]
        ELSE IF stab.latest = NoState THEN _record(s1, candidate, ts)
        ELSE
          LET prev == stab.latest
              delta == Abs(candidate.bpm - prev.bpm)
              same_zone == Zone(candidate.bpm) = Zone(prev.bpm)
              time_since_last == ts - stab.last_publish_ts
              zone_changed == ~same_zone
          IN  IF Jitter(cfg, same_zone, delta)
                THEN [stabilizer |-> s1, ret |-> NoState]
              ELSE IF RateLimit(cfg, zone_changed, delta, time_since_last)
                THEN [stabilizer |-> s1, ret |-> NoState]
              ELSE IF Dwell(cfg, zone_changed, delta, time_since_last)
                THEN [stabilizer |-> s1, ret |-> NoState]
              ELSE _record(s1, candidate, ts)

\* A push that records as soon as the rate-limit check lets the sample pass.
PushWithoutDwell(stab, cfg, bpm, mood, user_id, hrv_ms, workout_type, resting_hr, time_of_day, ts) ==
    LET samples == DequeAppend(stab.samples, [ts |-> ts, bpm |-> bpm],
                               cfg.smoothing_window)
        s1 == [stab EXCEPT !.samples = samples]
        candidate == Candidate(samples, mood, user_id, hrv_ms, workout_type,
                               resting_hr, time_of_day, ts)
    IN  IF stab.latest = NoState THEN _record(s1, candidate, ts)
        ELSE
          LET prev == stab.latest
              delta == Abs(candidate.bpm - prev.bpm)
              same_zone == Zone(candidate.bpm) = Zone(prev.bpm)
              time_since_last == ts - stab.last_publish_ts
              zone_changed == ~same_zone
          IN  IF Jitter(cfg, same_zone, delta)
                THEN [stabilizer |-> s1, ret |-> NoState]
              ELSE IF RateLimit(cfg, zone_changed, delta, time_since_last)
                THEN [stabilizer |-> s1, ret |-> NoState]
              ELSE _record(s1, candidate, ts)

push(stab, cfg, bpm, mood, user_id, hrv_ms, workout_type, resting_hr, time_of_day, ts) ==
    LET samples == DequeAppend(stab.samples, [ts |-> ts, bpm |-> bpm],
                               cfg.smoothing_window)
        s1 == [stab EXCEPT !.samples = samples]
        candidate == Candidate(samples, mood, user_id, hrv_ms, workout_type,
                               resting_hr, time_of_day, ts)
    IN  IF stab.latest = NoState THEN _record(s1, candidate, ts)
        ELSE
          LET prev == stab.latest
              delta == Abs(candidate.bpm - prev.bpm)
              same_zone == Zone(candidate.bpm) = Zone(prev.bpm)
              time_since_last == ts - stab.last_publish_ts
              zone_changed == ~same_zone
          IN  IF Jitter(cfg, same_zone, delta)
                THEN [stabilizer |-> s1, ret |-> NoState]
              ELSE IF RateLimit(cfg, zone_changed, delta, time_since_last)
                THEN [stabilizer |-> s1, ret |-> NoState]
              ELSE IF Dwell(cfg, zone_changed, delta, time_since_last)
                THEN [stabilizer |-> s1, ret |-> NoState]
              ELSE _record(s1, candidate, ts)

-----------------------------------------------------------------------------
(* HeartService *)

NewContext == [repo |-> NoState, stabilizer |-> NewStabilizer]

\* self._contexts[user_id] = ctx, and the in-place updates of that pair.
StoreShared(ctxs, user_id, ctx) == [u \in DOMAIN ctxs |-> ctx]

\* A registry that does not keep the pair built on first contact.
StoreDropsNew(ctxs, user_id, ctx) ==
    IF ctxs[user_id] = NoCtx THEN ctxs ELSE [ctxs EXCEPT ![user_id] = ctx]

Store(ctxs, user_id, ctx) == [ctxs EXCEPT ![user_id] = ctx]

\* A _context that hands out the cached pair with its window emptied.
ContextLosesWindow(ctxs, user_id) ==
    IF ctxs[user_id] # NoCtx
      THEN [ctxs[user_id] EXCEPT !.stabilizer.samples = <<>>]
      ELSE NewContext

\* A _context that constructs a pair on every call.
ContextAlwaysFresh(ctxs, user_id) == NewContext

\* HeartService._context: the cached pair, or a fresh one on first contact.
_context(ctxs, user_id) ==
    IF ctxs[user_id] # NoCtx THEN ctxs[user_id] ELSE NewContext

\* `a or b` on two optional HeartStates.
OrState(a, b) == IF a # NoState THEN a ELSE b

\* Lines 236-252 of ingest with the fall-through to save left open after
\* a suppressed push.
SurfaceFallThrough(repo, stab, state, data, user_id, tod, ts) ==
    LET adhoc == HeartState(data.bpm * Scale, user_id, data.mood, data.hrv_ms,
                            data.workout_type, data.resting_hr, tod, ts)
        st == IF state = NoState THEN adhoc ELSE state
    IN  [repo |-> st, dto |-> to_dto(st), adhoc |-> state = NoState]

\* Lines 236-252 of ingest answering a suppressed push with the raw sample.
SurfaceRaw(repo, stab, state, data, user_id, tod, ts) ==
    LET adhoc == HeartState(data.bpm * Scale, user_id, data.mood, data.hrv_ms,
                            data.workout_type, data.resting_hr, tod, ts)
    IN  IF state = NoState
          THEN [repo |-> repo, dto |-> to_dto(adhoc), adhoc |-> TRUE]
          ELSE [repo |-> state, dto |-> to_dto(state), adhoc |-> FALSE]

\* Lines 236-252 of ingest without the save after a publish.
SurfaceNoSave(repo, stab, state, data, user_id, tod, ts) ==
    IF state = NoState
      THEN LET latest == OrState(stab.latest, repo)
           IN  IF latest # NoState
                 THEN [repo |-> repo, dto |-> to_dto(latest), adhoc |-> FALSE]
                 ELSE LET adhoc == HeartState(data.bpm * Scale, user_id, data.mood,
                                              data.hrv_ms, data.workout_type,
                                              data.resting_hr, tod, ts)
                      IN  [repo |-> adhoc, dto |-> to_dto(adhoc), adhoc |-> TRUE]
      ELSE [repo |-> repo, dto |-> to_dto(state), adhoc |-> FALSE]

\* Lines 236-252 of ingest: what is saved and what is returned, given the
\* stabilizer after push and push's return value.
Surface(repo, stab, state, data, user_id, tod, ts) ==
    IF state = NoState
      THEN LET latest == OrState(stab.latest, repo)
           IN  IF latest # NoState
                 THEN [repo |-> repo, dto |-> to_dto(latest), adhoc |-> FALSE]
                 ELSE LET adhoc == HeartState(data.bpm * Scale, user_id, data.mood,
                                              data.hrv_ms, data.workout_type,
                                              data.resting_hr, tod, ts)
                      IN  [repo |-> adhoc, dto |-> to_dto(adhoc), adhoc |-> TRUE]
      ELSE [repo |-> state, dto |-> to_dto(state), adhoc |-> FALSE]

\* A latest that looks the raw user id up, without the default key.
LatestNoDefault(ctxs, user_id) ==
    IF ~Truthy(user_id) \/ ctxs[user_id] = NoCtx THEN NoState
    ELSE LET stable == OrState(ctxs[user_id].stabilizer.latest, ctxs[user_id].repo)
         IN  IF stable # NoState THEN to_dto(stable) ELSE NoState

\* HeartService.latest
\* A latest that sends a missing id to the default key but not an empty one.
LatestEmptyIsUnknown(ctxs, user_id) ==
    IF user_id = "" THEN NoState
    ELSE LET key == IF Truthy(user_id) THEN user_id ELSE DEFAULT_USER
         IN  IF ctxs[key] = NoCtx THEN NoState
             ELSE LET stable == OrState(ctxs[key].stabilizer.latest, ctxs[key].repo)
                  IN  IF stable # NoState THEN to_dto(stable) ELSE NoState

latest(ctxs, user_id) ==
    LET key == IF Truthy(user_id) THEN user_id ELSE DEFAULT_USER
    IN  IF ctxs[key] = NoCtx THEN NoState
        ELSE LET stable == OrState(ctxs[key].stabilizer.latest, ctxs[key].repo)
             IN  IF stable # NoState THEN to_dto(stable) ELSE NoState

\* A latest call that goes through _context and so registers the key.
LatestCallCreates(ctxs, user_id) ==
    LET key == IF Truthy(user_id) THEN user_id ELSE DEFAULT_USER
    IN  [contexts |-> Store(ctxs, key, _context(ctxs, key)),
         ret |-> latest(ctxs, user_id)]

\* One call of HeartService.latest: the registry it leaves and what it returns.
LatestCall(ctxs, user_id) == [contexts |-> ctxs, ret |-> latest(ctxs, user_id)]

\* HeartService.reset(uid): discards the user's Stabilizer/Repository pair.
reset(ctxs, uid) == [ctxs EXCEPT ![uid] = NoCtx]

-----------------------------------------------------------------------------
(* Actions *)

NoSeen == [noseen |-> TRUE]
NoProbe == [noprobe |-> TRUE]

\* User ids a caller may pass.
UserIds == {None, "", DEFAULT_USER, "alice"}

NoSteady == [nosteady |-> TRUE]

\* state = None of src/heart_mcp.py.
NoMcp == [nomcp |-> TRUE]

\* No request answered yet.
NoReply == [noreply |-> TRUE]

InitAux ==
    /\ steady = NoSteady
    /\ nsteady = 0
    /\ calls = <<>>
    /\ inflight = {}
    /\ served = <<>>
    /\ legacy = NewContext
    /\ bus = <<>>
    /\ polled = <<>>
    /\ mcp_state = NoMcp
    /\ event_queue = <<>>
    /\ replies = <<>>
    /\ forwarder = [running |-> TRUE, last_ts |-> [u \in UserKeys |-> 0]]
    /\ sent = <<>>
    /\ agent_fwd = [running |-> TRUE, last_ts |-> 0]
    /\ agent_taken = <<>>
    /\ agent_sent = <<>>
    /\ api_reply = NoReply

Init ==
    /\ now = StartTime
    /\ config \in Configs
    /\ contexts = [u \in UserKeys |-> NoCtx]
    /\ last = NoCall
    /\ publish_count = [u \in UserKeys |-> 0]
    /\ ningest = 0
    /\ history = [u \in UserKeys |-> <<>>]
    /\ created = [u \in UserKeys |-> 0]
    /\ resets = [u \in UserKeys |-> 0]
    /\ seen = NoSeen
    /\ probe = NoProbe
    /\ InitAux

InitDefault == Init /\ config = DefaultConfig

\* HeartService.ingest(data); the clock has advanced by d since it was last read.
IngestCall(data, d) ==
    /\ LET ts == now + d
           user_id == IF Truthy(data.user_id) THEN data.user_id ELSE DEFAULT_USER
           tod == IF Truthy(data.time_of_day) THEN data.time_of_day
                  ELSE time_of_day_bucket(ts)
           ctx == _context(contexts, user_id)
           r == push(ctx.stabilizer, config, data.bpm, data.mood, user_id,
                     data.hrv_ms, data.workout_type, data.resting_hr, tod, ts)
           out == Surface(ctx.repo, r.stabilizer, r.ret, data, user_id, tod, ts)
       IN  /\ now' = ts
           /\ contexts' = Store(contexts, user_id,
                                [repo |-> out.repo, stabilizer |-> r.stabilizer])
           /\ history' = [history EXCEPT
                            ![user_id] = Append(@, [ts |-> ts, bpm |-> data.bpm,
                                                    mood |-> data.mood,
                                                    hrv_ms |-> data.hrv_ms,
                                                    workout_type |-> data.workout_type,
                                                    resting_hr |-> data.resting_hr,
                                                    time_of_day |-> tod,
                                                    published |-> r.ret # NoState])]
           /\ created' = [created EXCEPT
                            ![user_id] = @ + (IF ctx = NewContext THEN 1 ELSE 0)]
           /\ last' = [user |-> user_id,
                       bpm |-> data.bpm,
                       mood |-> data.mood,
                       ts |-> ts,
                       fresh |-> ctx.stabilizer.latest = NoState,
                       prev |-> ctx.stabilizer.latest,
                       prev_ts |-> ctx.stabilizer.last_publish_ts,
                       candidate |-> Candidate(r.stabilizer.samples, data.mood, user_id,
                                               data.hrv_ms, data.workout_type,
                                               data.resting_hr, tod, ts),
                       pushed |-> r.ret,
                       dto |-> out.dto,
                       adhoc |-> out.adhoc]
           /\ publish_count' = [publish_count EXCEPT
                                  ![user_id] = @ + (IF r.ret # NoState THEN 1 ELSE 0)]
    /\ UNCHANGED <<config, resets, seen, probe>>

\* One of the boundedly many requests a client posts.
Ingest(data, d) ==
    /\ ningest < MaxIngests
    /\ IngestCall(data, d)
    /\ ningest' = ningest + 1
    /\ UNCHANGED aux

\* GET /health: heart_service.latest(user_id).
Latest(user_id) ==
    /\ LET r == LatestCall(contexts, user_id)
       IN  /\ contexts' = r.contexts
           /\ seen' = [op |-> "latest", user_id |-> user_id, ret |-> r.ret]
    /\ UNCHANGED aux
    /\ UNCHANGED <<now, config, last, publish_count, ningest, history, created,
                   resets, probe>>

\* POST /reset: heart_service.reset(user_id or "default").
Reset(user_id) ==
    LET uid == IF Truthy(user_id) THEN user_id ELSE "default"
    IN  /\ resets[DEFAULT_USER] + resets["alice"] < MaxResets
        /\ contexts' = reset(contexts, uid)
        /\ history' = [history EXCEPT ![uid] = <<>>]
        /\ resets' = [resets EXCEPT ![uid] = @ + 1]
        /\ UNCHANGED aux
        /\ UNCHANGED <<now, config, last, publish_count, ningest, created, seen,
                       probe>>

Next == \E data \in Requests, d \in ClockSteps : Ingest(data, d)

Spec == Init /\ [][Next]_vars

NextScenario ==
    \E data \in ScenarioRequests, d \in ScenarioClockSteps : Ingest(data, d)

SpecScenario == InitDefault /\ [][NextScenario]_vars

\* The service with its read and reset endpoints.
ServiceRequests ==
    { Request(b, u, PlainExtras) : b \in {55, 95}, u \in {None, DEFAULT_USER} }
      \cup { Request(b, "alice", FullExtras) : b \in {55, 95} }

\* User ids the read and reset endpoints are called with.
QueryIds == {None, "alice"}

InitService == Init /\ config = DefaultConfig

NextService ==
    \/ \E data \in ServiceRequests, d \in ClockSteps : Ingest(data, d)
    \/ \E user_id \in QueryIds : Latest(user_id)
    \/ \E user_id \in QueryIds : Reset(user_id)

SpecService == InitService /\ [][NextService]_vars

\* state, changed = <returned object>: the assignment iterates the object and
\* needs exactly two items. A pydantic model iterates over its fields.
Unpack2(returned) == Cardinality(DOMAIN returned) = 2

\* POST /ingest of src/vibesense/app/heart_api.py, from the call of
\* heart_service.ingest to the reply. The service returns the DTO alone, so
\* the unpacking of line 80 raises ValueError after the sample was ingested.
ApiIngest(body, d) ==
    /\ ningest < MaxIngests
    /\ IngestCall(body, d)
    /\ ningest' = ningest + 1
    /\ api_reply' =
         IF Unpack2(last'.dto)
           THEN [status |-> "ok", state_changed |-> TRUE, suggestion |-> TRUE]
         ELSE [status |-> "ValueError", state_changed |-> FALSE, suggestion |-> FALSE]
    /\ UNCHANGED <<steady, nsteady, call_vars, bus_vars, mcp_vars, fwd_vars>>

NextApi == \E body \in ServiceRequests, d \in ClockSteps : ApiIngest(body, d)

SpecApi == InitService /\ [][NextApi]_vars

\* Requests in flight.  Every endpoint is a coroutine of one event loop, which
\* switches between coroutines at an await only: POST /ingest awaits its body
\* and then heart_service.ingest, whose body holds no await.  A request is
\* received (Arrive) and later its ingest runs from its first line to its
\* return in one step (Run); which of the received requests runs next is
\* the event loop's choice.
ConcurrentRequests ==
    { Request(b, u, PlainExtras) : b \in {55, 95}, u \in {None, "alice"} }

Arrive(data) ==
    /\ Len(calls) < MaxIngests
    /\ calls' = Append(calls, data)
    /\ inflight' = inflight \cup {Len(calls) + 1}
    /\ UNCHANGED <<now, config, contexts, last, publish_count, ningest, history,
                   created, resets, seen, probe, steady, nsteady, served, bus_vars, mcp_vars, fwd_vars, api_reply>>

Run(c, d) ==
    /\ c \in inflight
    /\ IngestCall(calls[c], d)
    /\ inflight' = inflight \ {c}
    /\ served' = Append(served, c)
    /\ ningest' = ningest + 1
    /\ UNCHANGED <<steady, nsteady, calls, bus_vars, mcp_vars, fwd_vars, api_reply>>

NextConcurrent ==
    \/ \E data \in ConcurrentRequests : Arrive(data)
    \/ \E c \in 1..MaxIngests, d \in ClockSteps : Run(c, d)

SpecConcurrent == InitService /\ [][NextConcurrent]_vars

\* Requests that name the default user in each of the ways a client can (no
\* id, an empty id, the id "default"), next to requests of another user, and
\* reads with the same ids.
DefaultKeyRequests ==
    { Request(55, u, PlainExtras) : u \in {None, ""} }
      \cup { Request(95, u, PlainExtras) : u \in {DEFAULT_USER, "alice"} }

DefaultKeyQueries == {None, ""}

NextDefaultKey ==
    \/ \E data \in DefaultKeyRequests : Arrive(data)
    \/ \E c \in 1..MaxIngests : Run(c, 1)
    \/ \E user_id \in DefaultKeyQueries : Latest(user_id)

SpecDefaultKey == InitService /\ [][NextDefaultKey]_vars

\* The bus-backed service (src/heart_core.py): one stabilizer and repository
\* with the default configuration, and an unbounded asyncio.Queue, on which
\* put never waits.
push_core(stab, bpm, mood, ts) ==
    push(stab, DefaultConfig, bpm, mood, None, None, None, None, None, ts)

\* Lines 202-212 of the bus-backed ingest with the enqueue also after a
\* suppressed push.
SurfaceCoreAlwaysEnqueues(repo, stab, state, data, ts) ==
    IF state = NoState
      THEN LET stable == OrState(stab.latest, repo)
           IN  IF stable # NoState
                 THEN [repo |-> repo, dto |-> to_dto_core(stable),
                       events |-> <<to_dto_core(stable)>>]
                 ELSE LET adhoc == HeartState(data.bpm * Scale, None, data.mood, None,
                                              None, None, None, ts)
                      IN  [repo |-> adhoc, dto |-> to_dto_core(adhoc),
                           events |-> <<to_dto_core(adhoc)>>]
      ELSE [repo |-> state, dto |-> to_dto_core(state), events |-> <<to_dto_core(state)>>]

\* Lines 202-212 of the bus-backed ingest: what is saved, what is returned and
\* what is put on the bus.
SurfaceCore(repo, stab, state, data, ts) ==
    IF state = NoState
      THEN LET stable == OrState(stab.latest, repo)
           IN  IF stable # NoState
                 THEN [repo |-> repo, dto |-> to_dto_core(stable), events |-> <<>>]
                 ELSE LET adhoc == HeartState(data.bpm * Scale, None, data.mood, None,
                                              None, None, None, ts)
                      IN  [repo |-> adhoc, dto |-> to_dto_core(adhoc),
                           events |-> <<to_dto_core(adhoc)>>]
      ELSE [repo |-> state, dto |-> to_dto_core(state), events |-> <<to_dto_core(state)>>]

BusRequests ==
    { Request(b, None, PlainExtras) : b \in {55, 95} }
      \cup { Request(85, None, [PlainExtras EXCEPT !.mood = "calm"]) }

\* The bus-backed HeartService.ingest of the in-flight request c, run from its
\* first line to its return.
BusRun(c, d) ==
    /\ c \in inflight
    /\ LET ts == now + d
           data == calls[c]
           r == push_core(legacy.stabilizer, data.bpm, data.mood, ts)
           out == SurfaceCore(legacy.repo, r.stabilizer, r.ret, data, ts)
       IN  /\ now' = ts
           /\ legacy' = [repo |-> out.repo, stabilizer |-> r.stabilizer]
           /\ bus' = bus \o out.events
           /\ history' = [history EXCEPT
                            ![DEFAULT_USER] =
                               Append(@, [ts |-> ts, bpm |-> data.bpm,
                                          mood |-> data.mood, hrv_ms |-> None,
                                          workout_type |-> None, resting_hr |-> None,
                                          time_of_day |-> None,
                                          published |-> r.ret # NoState])]
           /\ publish_count' = [publish_count EXCEPT
                                  ![DEFAULT_USER] = @ + (IF r.ret # NoState THEN 1 ELSE 0)]
    /\ inflight' = inflight \ {c}
    /\ served' = Append(served, c)
    /\ ningest' = ningest + 1
    /\ UNCHANGED <<config, contexts, last, created, resets, seen, probe,
                   steady, nsteady, calls, polled, mcp_vars, fwd_vars, api_reply>>

\* HeartEventBus.poll(): the forwarder takes the oldest event.
Poll ==
    /\ bus # <<>>
    /\ polled' = Append(polled, Head(bus))
    /\ bus' = Tail(bus)
    /\ UNCHANGED <<now, config, contexts, last, publish_count, ningest, history,
                   created, resets, seen, probe, steady, nsteady, call_vars, legacy,
                   mcp_vars, fwd_vars, api_reply>>

NextBus ==
    \/ \E data \in BusRequests : Arrive(data)
    \/ \E c \in 1..MaxIngests, d \in ClockSteps : BusRun(c, d)
    \/ Poll

SpecBus == InitService /\ [][NextBus]_vars

------------------------------------------------------------------------------
(* The ingestion boundary of src/heart_mcp.py: POST /ingest *)

\* A Python float: a finite value in 1/Scale bpm, or one of the three
\* non-finite values.
Finite(n) == [cls |-> "finite", v |-> n * Scale]
NaN == [cls |-> "nan", v |-> 0]
PosInf == [cls |-> "+inf", v |-> 0]
NegInf == [cls |-> "-inf", v |-> 0]

\* x < c for a float x and a finite bound c: false for NaN and +inf, true
\* for -inf.
FloatLess(x, c) ==
    CASE x.cls = "finite" -> x.v < c
      [] x.cls = "-inf" -> TRUE
      [] OTHER -> FALSE

\* The value of the key "bpm" in the decoded body. json.loads turns the
\* literals NaN, Infinity and -Infinity into the non-finite floats.
JNumber(x) == [t |-> "number", f |-> x]
JString(text) == [t |-> "string", s |-> text]
JNull == [t |-> "null"]
JList == [t |-> "list"]
JMissing == [t |-> "missing"]

\* float(bpm): ValueError for text that is no number, TypeError for a list.
PyFloat(j) ==
    LET bad == [ok |-> FALSE, val |-> NaN]
    IN  CASE j.t = "number" -> [ok |-> TRUE, val |-> j.f]
          [] j.t = "string" ->
               CASE j.s = "85" -> [ok |-> TRUE, val |-> Finite(85)]
                 [] j.s = "nan" -> [ok |-> TRUE, val |-> NaN]
                 [] j.s = "inf" -> [ok |-> TRUE, val |-> PosInf]
                 [] j.s = "-inf" -> [ok |-> TRUE, val |-> NegInf]
                 [] OTHER -> bad
          [] OTHER -> bad

\* HeartState.zone of src/heart_mcp.py on a float.
McpZone(x) ==
    IF FloatLess(x, 60 * Scale) THEN "rest"
    ELSE IF FloatLess(x, 90 * Scale) THEN "light"
    ELSE IF FloatLess(x, 120 * Scale) THEN "moderate"
    ELSE IF FloatLess(x, 150 * Scale) THEN "hard"
    ELSE "peak"

\* HeartState.inferred_mood of src/heart_mcp.py.
McpMood(mood, x) ==
    IF Truthy(mood) THEN mood
    ELSE CASE McpZone(x) = "rest" -> "chill"
           [] McpZone(x) = "light" -> "focus"
           [] McpZone(x) = "moderate" -> "upbeat"
           [] McpZone(x) = "hard" -> "hype"
           [] McpZone(x) = "peak" -> "intense"

\* HeartState.playlist_hint of src/heart_mcp.py.
McpHint(x) ==
    CASE McpZone(x) = "rest" -> "calm acoustic or lo-fi"
      [] McpZone(x) = "light" -> "steady focus playlists"
      [] McpZone(x) = "moderate" -> "upbeat pop/indie"
      [] McpZone(x) = "hard" -> "high-energy workout"
      [] McpZone(x) = "peak" -> "max intensity anthems"

\* HeartState.to_dict of src/heart_mcp.py.
to_dict(s) ==
    [bpm |-> s.bpm,
     zone |-> McpZone(s.bpm),
     mood |-> McpMood(s.mood, s.bpm),
     source |-> s.source,
     timestamp |-> s.timestamp,
     playlist_hint |-> McpHint(s.bpm),
     cooldown_recommended |-> McpZone(s.bpm) \in {"hard", "peak"}]

\* The request bodies posted to /ingest: one that is no JSON, and objects
\* whose "bpm" is absent, null, a number (the non-finite literals included),
\* a text or a list.
BadJson == [t |-> "garbage"]
JObject(j) == [t |-> "object", bpm |-> j, mood |-> None, source |-> None]
McpBodies ==
    {BadJson}
      \cup { JObject(j) :
               j \in {JMissing, JNull, JList}
                     \cup { JNumber(x) : x \in {Finite(55), Finite(85), NaN, PosInf, NegInf} }
                     \cup { JString(text) : text \in {"85", "nan", "inf", "-inf", "abc"} } }

\* POST /ingest of src/heart_mcp.py, from the decoding of the body to the
\* construction of the reply. The clock is read when HeartState is built.
McpIngest(body, d) ==
    /\ Len(replies) < MaxIngests
    /\ IF body.t # "object"
         THEN /\ replies' = Append(replies, "invalid json")
              /\ UNCHANGED <<now, mcp_state, event_queue>>
       ELSE IF body.bpm.t \in {"missing", "null"}
         THEN /\ replies' = Append(replies, "bpm is required")
              /\ UNCHANGED <<now, mcp_state, event_queue>>
       ELSE IF ~PyFloat(body.bpm).ok
         THEN /\ replies' = Append(replies, "bpm must be a number")
              /\ UNCHANGED <<now, mcp_state, event_queue>>
       ELSE LET stored == [bpm |-> PyFloat(body.bpm).val, mood |-> body.mood,
                           source |-> body.source, timestamp |-> now + d]
            IN  /\ now' = now + d
                /\ mcp_state' = stored
                /\ event_queue' = Append(event_queue, to_dict(stored))
                /\ replies' = Append(replies, "ok")
    /\ UNCHANGED <<config, contexts, last, publish_count, ningest, history,
                   created, resets, seen, probe, steady, nsteady, call_vars, bus_vars,
                   fwd_vars, api_reply>>

NextMcp == \E body \in McpBodies, d \in ClockSteps : McpIngest(body, d)

SpecMcp == InitService /\ [][NextMcp]_vars

------------------------------------------------------------------------------
(* The event forwarders *)

\* A forwarder whose task ends when agent_app.send raises.
AfterSendStops(fwd, ok) == [fwd EXCEPT !.running = ok]

\* try: await agent_app.send(summary) / except Exception: pass. The loop goes
\* on to its next iteration whether send returned or raised.
AfterSend(fwd, ok) == fwd

\* One iteration of HeartEventForwarder._loop of src/agent_runtime.py, from
\* event_bus.poll() to the end of the loop body; ok tells whether
\* agent_app.send returned. The bus carries HeartStateDTO of src/heart_core.py,
\* which has no attribute user_id: reading it raises AttributeError outside
\* the try, and the task ends.
_loop(ok) ==
    /\ forwarder.running
    /\ bus # <<>>
    /\ LET event == Head(bus)
       IN  /\ bus' = Tail(bus)
           /\ polled' = Append(polled, event)
           /\ IF "user_id" \notin DOMAIN event
                THEN /\ forwarder' = [forwarder EXCEPT !.running = FALSE]
                     /\ sent' = sent
              ELSE LET user_id == IF Truthy(event.user_id) THEN event.user_id
                                  ELSE "default"
                       ts == event.timestamp
                   IN  IF ts <= forwarder.last_ts[user_id]
                         THEN UNCHANGED <<forwarder, sent>>
                       ELSE /\ sent' = Append(sent, [event |-> event,
                                                     user_id |-> user_id,
                                                     raised |-> ~ok])
                            /\ forwarder' =
                                 AfterSend([forwarder EXCEPT !.last_ts[user_id] = ts], ok)
    /\ UNCHANGED <<now, config, contexts, last, publish_count, ningest, history,
                   created, resets, seen, probe, steady, nsteady, call_vars, legacy,
                   mcp_vars, agent_fwd, agent_taken, agent_sent, api_reply>>

NextRuntime ==
    \/ \E data \in BusRequests : Arrive(data)
    \/ \E c \in 1..MaxIngests, d \in ClockSteps : BusRun(c, d)
    \/ \E ok \in BOOLEAN : _loop(ok)

SpecRuntime == InitService /\ [][NextRuntime]_vars

\* One iteration of forward_heart_events of src/agent.py, from
\* event_queue.get() to the end of the loop body; ok tells whether
\* agent_app.send returned.
forward_heart_events(ok) ==
    /\ agent_fwd.running
    /\ event_queue # <<>>
    /\ LET event == Head(event_queue)
           ts == event.timestamp
       IN  /\ event_queue' = Tail(event_queue)
           /\ agent_taken' = Append(agent_taken, event)
           /\ IF ts <= agent_fwd.last_ts
                THEN UNCHANGED <<agent_fwd, agent_sent>>
              ELSE /\ agent_sent' = Append(agent_sent, [event |-> event, raised |-> ~ok])
                   /\ agent_fwd' = AfterSend([agent_fwd EXCEPT !.last_ts = ts], ok)
    /\ UNCHANGED <<now, config, contexts, last, publish_count, ningest, history,
                   created, resets, seen, probe, steady, nsteady, call_vars, bus_vars,
                   mcp_state, replies, forwarder, sent, api_reply>>

\* Bodies posted while the agent runs, and the clock between two of them: two
\* readings built within one tick of time.time() carry the same timestamp.
AgentBodies == {BadJson, JObject(JNumber(Finite(55))), JObject(JNumber(Finite(85)))}
AgentClockSteps == {0, 1}

NextAgent ==
    \/ \E body \in AgentBodies, d \in AgentClockSteps : McpIngest(body, d)
    \/ \E ok \in BOOLEAN : forward_heart_events(ok)

SpecAgent == InitService /\ [][NextAgent]_vars



\* A steady run: after any history of at most MaxIngests samples the client
\* keeps sending the same raw rate, the clock advancing by the same positive
\* step between two samples.
SteadyConfigs == {DefaultConfig, TightConfig}
PriorRequests == { Request(b, None, PlainExtras) : b \in {70, 95} }

InitSteady == Init /\ config \in SteadyConfigs

Settle(r, d) ==
    /\ steady = NoSteady
    /\ steady' = [bpm |-> r, d |-> d]
    /\ UNCHANGED <<now, config, contexts, last, publish_count, ningest, history,
                   created, resets, seen, probe, nsteady, call_vars, bus_vars, mcp_vars, fwd_vars, api_reply>>

SteadyIngest ==
    /\ steady # NoSteady
    /\ nsteady < MaxSteady
    /\ IngestCall(Request(steady.bpm, None, PlainExtras), steady.d)
    /\ nsteady' = nsteady + 1
    /\ UNCHANGED <<steady, ningest, call_vars, bus_vars, mcp_vars, fwd_vars, api_reply>>

NextSteady ==
    \/ \E data \in PriorRequests, d \in ClockSteps : steady = NoSteady /\ Ingest(data, d)
    \/ \E r \in Rates, d \in ClockSteps : Settle(r, d)
    \/ SteadyIngest

\* SteadyIngest seen through its counter alone: ingest never blocks, so
\* SteadyIngest is enabled exactly when SteadyTick is, and only SteadyIngest
\* changes nsteady.
SteadyTick ==
    /\ steady # NoSteady
    /\ nsteady < MaxSteady
    /\ nsteady' = nsteady + 1

\* The samples of the steady run keep arriving.
SpecSteady == InitSteady /\ [][NextSteady]_vars /\ WF_nsteady(SteadyTick)

\* The zone classifiers applied to pairs of rates (in 1/Scale bpm) at, just
\* below and just above every boundary.
ProbeRates ==
    {0, 59 * Scale, 250 * Scale}
      \cup { b * Scale + k : b \in {60, 90, 120, 150, 180, 200}, k \in {-1, 0, 1} }

InitZone ==
    /\ now = StartTime
    /\ config = DefaultConfig
    /\ contexts = [u \in UserKeys |-> NoCtx]
    /\ last = NoCall
    /\ publish_count = [u \in UserKeys |-> 0]
    /\ ningest = 0
    /\ history = [u \in UserKeys |-> <<>>]
    /\ created = [u \in UserKeys |-> 0]
    /\ resets = [u \in UserKeys |-> 0]
    /\ seen = NoSeen
    /\ probe \in { [r1 |-> a, r2 |-> b, done |-> FALSE, z1 |-> None, z2 |-> None,
                     core |-> None, compute |-> None, mcp |-> None, api |-> None]
                    : a \in ProbeRates, b \in ProbeRates }
    /\ InitAux

Classify ==
    /\ ~probe.done
    /\ probe' = [probe EXCEPT !.done = TRUE,
                              !.z1 = Zone(probe.r1),
                              !.z2 = Zone(probe.r2),
                              !.core = ZoneCore(probe.r1),
                              !.compute = _compute_zone(probe.r1),
                              !.mcp = ZoneMcp(probe.r1),
                              !.api = ZoneApi(probe.r1)]
    /\ UNCHANGED aux
    /\ UNCHANGED <<now, config, contexts, last, publish_count, ningest, history,
                   created, resets, seen>>

NextZone == Classify

SpecZone == InitZone /\ [][NextZone]_vars

-----------------------------------------------------------------------------
(* What the most recent ingest observed of its push *)

Pushed == last # NoCall
HadPublished == Pushed /\ ~last.fresh
LastCtx == contexts[last.user]
LastDelta == Abs(last.candidate.bpm - last.prev.bpm)
LastSameZone == Zone(last.candidate.bpm) = Zone(last.prev.bpm)
LastElapsed == last.ts - last.prev_ts
Suppressed == last.pushed = NoState
Published ==
    /\ last.pushed = last.candidate
    /\ LastCtx.stabilizer.latest = last.candidate
    /\ LastCtx.stabilizer.last_publish_ts = last.ts

\* Raw rates and arrival times (seconds after the first sample) in a window.
RawRates(samples) == [i \in 1..Len(samples) |-> samples[i].bpm]
Offsets(samples) == [i \in 1..Len(samples) |-> samples[i].ts - samples[1].ts]
DefaultWindow == contexts[DEFAULT_USER].stabilizer.samples
DefaultRun(rates, offsets) ==
    /\ contexts[DEFAULT_USER] # NoCtx
    /\ ningest = Len(rates)
    /\ RawRates(DefaultWindow) = rates
    /\ Offsets(DefaultWindow) = offsets

-----------------------------------------------------------------------------
(* C1: the first push on a fresh stabilizer publishes, under every
   configuration and for every rate: it returns the candidate, latest() is
   that reading and the last-publish timestamp is the push's timestamp. *)
C1_BootstrapPublishes ==
    (Pushed /\ last.fresh) =>
        /\ last.pushed # NoState
        /\ Published
        /\ last.pushed.timestamp = last.ts
        /\ latest(contexts, last.user) = to_dto(last.pushed)

C1_Witness ==
    /\ Pushed /\ last.fresh /\ ningest > 1
    /\ config = TightConfig
    /\ last.pushed # NoState

(* C2: jitter rule.  With a published reading, a candidate in the same zone
   as the last published rate and closer to it than minDelta is suppressed
   whatever the elapsed time; with the default configuration 70 then 72
   leaves the publish count at 1. *)
C2_JitterRule ==
    /\ (HadPublished /\ LastSameZone
          /\ LastDelta < config.min_bpm_delta * Scale) => Suppressed
    /\ \A d \in ScenarioClockSteps :
          DefaultRun(<<70, 72>>, <<0, d>>) =>
              Suppressed /\ publish_count[DEFAULT_USER] = 1

C2_Witness ==
    /\ HadPublished /\ LastSameZone
    /\ LastDelta < config.min_bpm_delta * Scale
    /\ LastElapsed >= config.min_zone_dwell
    /\ RawRates(DefaultWindow) = <<70, 72, 72>>
    /\ Suppressed

(* C3: rate-limit rule.  With a published reading and elapsed < minSpacing a
   push is suppressed unless the zone changed and delta >= fastDelta; 70 then
   78 one second later is suppressed. *)
C3_RateLimitRule ==
    /\ (HadPublished /\ LastElapsed < config.min_seconds_between_updates
          /\ ~(~LastSameZone /\ LastDelta >= config.fast_zone_delta * Scale))
       => Suppressed
    /\ DefaultRun(<<70, 78>>, <<0, 1>>) => Suppressed

C3_Witness ==
    /\ HadPublished /\ LastElapsed < config.min_seconds_between_updates
    /\ LastSameZone /\ LastDelta >= config.min_bpm_delta * Scale
    /\ Suppressed

(* C4: dwell rule.  With a published reading, a zone change with
   delta < fastDelta and elapsed < minZoneDwell is suppressed; so two
   consecutive publishes with different zones and rates closer than fastDelta
   are at least minZoneDwell apart. *)
C4_DwellRule ==
    /\ (HadPublished /\ ~LastSameZone
          /\ LastDelta < config.fast_zone_delta * Scale
          /\ LastElapsed < config.min_zone_dwell) => Suppressed
    /\ (HadPublished /\ ~Suppressed /\ ~LastSameZone
          /\ LastDelta < config.fast_zone_delta * Scale)
       => last.pushed.timestamp - last.prev.timestamp >= config.min_zone_dwell

C4_Witness ==
    /\ HadPublished /\ ~LastSameZone
    /\ LastDelta < config.fast_zone_delta * Scale
    /\ LastElapsed >= config.min_seconds_between_updates
    /\ LastElapsed < config.min_zone_dwell
    /\ Suppressed

(* C5: fast-jump bypass.  With a published reading, a zone change with
   delta >= fastDelta publishes the candidate for every elapsed time. *)
C5_FastJumpPublishes ==
    (HadPublished /\ ~LastSameZone
       /\ LastDelta >= config.fast_zone_delta * Scale) => Published

C5_Witness ==
    /\ HadPublished /\ ~LastSameZone
    /\ LastDelta >= config.fast_zone_delta * Scale
    /\ LastElapsed < config.min_seconds_between_updates
    /\ Published

(* C6: exact publish decision.  With a published reading, push publishes
   exactly when none of the jitter, rate-limit and dwell rules applies, and a
   publish records the candidate as latest, stamps the publish time and
   returns the candidate. *)
C6_JitterApplies ==
    LastSameZone /\ LastDelta < config.min_bpm_delta * Scale
C6_RateLimitApplies ==
    /\ LastElapsed < config.min_seconds_between_updates
    /\ (LastSameZone \/ LastDelta < config.fast_zone_delta * Scale)
C6_DwellApplies ==
    /\ ~LastSameZone
    /\ LastDelta < config.fast_zone_delta * Scale
    /\ LastElapsed < config.min_zone_dwell

C6_ExactDecision ==
    HadPublished =>
        IF C6_JitterApplies \/ C6_RateLimitApplies \/ C6_DwellApplies
          THEN Suppressed
          ELSE Published

C6_Witness ==
    /\ HadPublished
    /\ LastSameZone /\ LastDelta = config.min_bpm_delta * Scale
    /\ LastElapsed >= config.min_seconds_between_updates
    /\ Published

(* C7 as stated: with the default configuration, raw 70 and then, one second
   later, raw 95 makes the second push publish (publish count 2). *)
C7_AsStated ==
    DefaultRun(<<70, 95>>, <<0, 1>>) =>
        last.pushed # NoState /\ publish_count[DEFAULT_USER] = 2

(* C7 amended: the candidate of the second push is the window mean 82.5,
   which is still in zone light, so raw 70 then raw 95 one second later is
   suppressed and the publish count stays 1; raw 70 then raw 120 one second
   later (mean 95, zone moderate, delta 25 >= fastDelta) publishes at once. *)
C7_SmoothedJump ==
    /\ DefaultRun(<<70, 95>>, <<0, 1>>) =>
          /\ 2 * last.candidate.bpm = 165 * Scale
          /\ Suppressed
          /\ publish_count[DEFAULT_USER] = 1
    /\ DefaultRun(<<70, 120>>, <<0, 1>>) =>
          /\ last.candidate.bpm = 95 * Scale
          /\ Published
          /\ publish_count[DEFAULT_USER] = 2

C7_Witness ==
    /\ DefaultRun(<<70, 120>>, <<0, 1>>)
    /\ LastElapsed < config.min_seconds_between_updates
    /\ Published
    /\ publish_count[DEFAULT_USER] = 2

(* C8 as stated: with the default configuration, raw 70 at t=0 then raw 80 at
   t=10 is suppressed, and raw 80 again at t=22 publishes. *)
C8_AsStated ==
    /\ DefaultRun(<<70, 80>>, <<0, 10>>) => Suppressed
    /\ DefaultRun(<<70, 80, 80>>, <<0, 10, 22>>) => last.pushed # NoState

(* C8 amended: raw 70 at t=0 then raw 80 at t=10 publishes (mean 75, zone
   light unchanged, delta 5 = minDelta, elapsed past minSpacing) and raw 80
   again at t=22 is suppressed as jitter; a mild zone crossing, raw 85 at t=0
   then raw 95 at t=10 (mean 90, zone moderate, delta 5 < fastDelta), is
   suppressed by the dwell rule, and raw 95 again at t=22 publishes. *)
C8_DwellThenPublish ==
    /\ DefaultRun(<<70, 80>>, <<0, 10>>) => Published
    /\ DefaultRun(<<70, 80, 80>>, <<0, 10, 22>>) =>
          Suppressed /\ publish_count[DEFAULT_USER] = 2
    /\ DefaultRun(<<85, 95>>, <<0, 10>>) =>
          /\ Zone(last.candidate.bpm) = "moderate"
          /\ Zone(last.prev.bpm) = "light"
          /\ Suppressed
    /\ DefaultRun(<<85, 95, 95>>, <<0, 10, 22>>) =>
          Published /\ publish_count[DEFAULT_USER] = 2

C8_Witness ==
    /\ DefaultRun(<<85, 95, 95>>, <<0, 10, 22>>)
    /\ ~LastSameZone
    /\ LastDelta < config.fast_zone_delta * Scale
    /\ LastElapsed >= config.min_zone_dwell
    /\ Published

(* C9: a suppressed push changes only the rolling window.  The user's last
   published reading, last-publish timestamp and repository are unchanged,
   the window has taken the sample, and latest still returns the last
   published reading, never the suppressed candidate. *)
C9_SuppressedFrame ==
    [][ (last' # last /\ last'.pushed = NoState) =>
          LET u == last'.user
          IN  /\ contexts[u] # NoCtx
              /\ contexts[u].stabilizer.latest # NoState
              /\ contexts'[u].stabilizer.latest = contexts[u].stabilizer.latest
              /\ contexts'[u].stabilizer.last_publish_ts
                    = contexts[u].stabilizer.last_publish_ts
              /\ contexts'[u].repo = contexts[u].repo
              /\ contexts'[u].stabilizer.samples
                    = DequeAppend(contexts[u].stabilizer.samples,
                                  [ts |-> last'.ts, bpm |-> last'.bpm],
                                  config.smoothing_window)
              /\ \A v \in UserKeys \ {u} : contexts'[v] = contexts[v]
              /\ latest(contexts', u) = to_dto(contexts[u].stabilizer.latest)
              /\ latest(contexts', u) # to_dto(last'.candidate)
      ]_vars

C9_Witness ==
    /\ HadPublished /\ Suppressed
    /\ publish_count[last.user] = 1
    /\ Len(LastCtx.stabilizer.samples) = 3
    /\ last.candidate.bpm # last.prev.bpm
    /\ LastCtx.repo = last.prev
    /\ latest(contexts, last.user) = to_dto(last.prev)

(* C10: ingest always returns a reading: the freshly published one when the
   stabilizer publishes, otherwise the previously published stable reading of
   the same user key. *)
C10_IngestReturnsReading ==
    Pushed =>
        /\ last.dto # NoState
        /\ last.dto.user_id = last.user
        /\ IF last.pushed # NoState
             THEN last.dto = to_dto(last.pushed)
             ELSE /\ last.prev # NoState
                  /\ last.prev.user_id = last.user
                  /\ last.dto = to_dto(last.prev)

C10_Witness ==
    /\ HadPublished /\ Suppressed
    /\ last.user = "alice"
    /\ publish_count[DEFAULT_USER] > 0
    /\ last.dto = to_dto(last.prev)
    /\ last.dto.bpm # last.bpm * Scale

-----------------------------------------------------------------------------
(* Helpers of the service-level claims *)

KeyOf(user_id) == IF Truthy(user_id) THEN user_id ELSE DEFAULT_USER
Min(a, b) == IF a < b THEN a ELSE b
LastN(seq, n) == SubSeq(seq, Len(seq) - n + 1, Len(seq))
PublishedAt(h) == { i \in 1..Len(h) : h[i].published }
LastPublishedAt(h) == CHOOSE i \in PublishedAt(h) : \A j \in PublishedAt(h) : j <= i

(* C11: without reset, latest(userKey) is absent exactly when no ingest has
   been made for that key (a missing or empty id standing for the default
   key), and a published reading is only ever replaced by a newer one, never
   removed. *)
C11_LatestAbsentIffNeverIngested ==
    /\ [](\A uid \in UserIds :
            resets[KeyOf(uid)] = 0 =>
                (latest(contexts, uid) = NoState <=> history[KeyOf(uid)] = <<>>))
    /\ [][\A u \in UserKeys :
            (resets'[u] = resets[u] /\ latest(contexts, u) # NoState) =>
                /\ latest(contexts', u) # NoState
                /\ \/ latest(contexts', u) = latest(contexts, u)
                   \/ /\ latest(contexts', u).timestamp
                            > latest(contexts, u).timestamp
                      /\ latest(contexts', u) = last'.dto
         ]_vars

C11_Witness ==
    /\ resets[DEFAULT_USER] = 0 /\ resets["alice"] = 0
    /\ history["alice"] = <<>> /\ latest(contexts, "alice") = NoState
    /\ publish_count[DEFAULT_USER] = 2
    /\ seen # NoSeen /\ seen.user_id = None
    /\ seen.ret = latest(contexts, None)
    /\ seen.ret # NoState
    /\ seen.ret.timestamp = history[DEFAULT_USER][Len(history[DEFAULT_USER])].ts

(* C12: latest is read-only.  A latest call changes no window, no last
   published reading, no last-publish timestamp and no repository, and it
   never creates a registry entry: an entry exists only for a key that has
   been ingested. *)
C12_LatestReadOnly ==
    /\ [](\A u \in UserKeys : contexts[u] # NoCtx => history[u] # <<>>)
    /\ [][(ningest' = ningest /\ resets' = resets) =>
            /\ contexts' = contexts
            /\ now' = now
            /\ publish_count' = publish_count
            /\ created' = created
         ]_vars

C12_Witness ==
    /\ seen # NoSeen /\ seen.user_id = "alice" /\ seen.ret = NoState
    /\ contexts["alice"] = NoCtx /\ created["alice"] = 0
    /\ contexts[DEFAULT_USER] # NoCtx
    /\ Len(contexts[DEFAULT_USER].stabilizer.samples) = 2

(* C13: the registry constructs the pair of a user key exactly once, on first
   contact, and every later ingest of that key finds it, so the key's samples
   accumulate in one window and one publish history. *)
C13_PairCreatedOnce ==
    \A u \in UserKeys :
        /\ created[u] <= 1
        /\ created[u] = 1 <=> contexts[u] # NoCtx
        /\ created[u] = 1 <=> history[u] # <<>>
        /\ contexts[u] # NoCtx =>
             /\ Len(contexts[u].stabilizer.samples)
                    = Min(Len(history[u]), config.smoothing_window)
             /\ publish_count[u] = Cardinality(PublishedAt(history[u]))
             /\ contexts[u].stabilizer.last_publish_ts
                    = history[u][LastPublishedAt(history[u])].ts

C13_Witness ==
    /\ created["alice"] = 1
    /\ Len(history["alice"]) = 3
    /\ publish_count["alice"] = 2
    /\ Len(contexts["alice"].stabilizer.samples) = 3

(* C14: reset(userKey) discards the user's window, last published reading and
   repository.  Between the reset and the next push latest(userKey) is
   absent; the next push for that key publishes unconditionally and its rate
   is computed from the samples pushed after the reset only. *)
C14_ResetThenBootstrap ==
    /\ \A u \in UserKeys :
          (resets[u] > 0 /\ history[u] = <<>>) =>
              contexts[u] = NoCtx /\ latest(contexts, u) = NoState
    /\ (Pushed /\ resets[last.user] > 0 /\ Len(history[last.user]) = 1) =>
          /\ last.fresh
          /\ Published
          /\ RawRates(LastCtx.stabilizer.samples) = <<last.bpm>>
          /\ last.candidate.bpm = last.bpm * Scale
          /\ LastCtx.repo = last.candidate
          /\ latest(contexts, last.user) = to_dto(last.candidate)

C14_Witness ==
    /\ Pushed /\ resets[last.user] = 1 /\ Len(history[last.user]) = 1
    /\ ningest = 2 /\ publish_count[last.user] = 2
    /\ now = StartTime + 2
    /\ last.candidate.bpm = 95 * Scale
    /\ latest(contexts, last.user) = to_dto(last.candidate)

(* C15: user isolation.  An ingest for one key leaves every other key's
   window, last published reading, last-publish timestamp and repository
   unchanged, and the state (hence every returned reading) of a key is the
   one obtained by pushing that key's own samples alone. *)
RECURSIVE Replay(_, _, _)
Replay(h, cfg, u) ==
    IF h = <<>> THEN NewStabilizer
    ELSE LET e == h[Len(h)]
         IN  push(Replay(SubSeq(h, 1, Len(h) - 1), cfg, u), cfg, e.bpm, e.mood, u,
                  e.hrv_ms, e.workout_type, e.resting_hr, e.time_of_day,
                  e.ts).stabilizer

C15_UserIsolation ==
    /\ [](\A u \in UserKeys :
            contexts[u] # NoCtx =>
                /\ contexts[u].stabilizer = Replay(history[u], config, u)
                /\ contexts[u].repo = Replay(history[u], config, u).latest)
    /\ [][ningest' # ningest =>
            \A v \in UserKeys \ {last'.user} :
                /\ contexts'[v] = contexts[v]
                /\ history'[v] = history[v]
                /\ publish_count'[v] = publish_count[v]
                /\ latest(contexts', v) = latest(contexts, v)
         ]_vars

C15_Witness ==
    /\ Pushed /\ last.user = DEFAULT_USER /\ ningest = 3
    /\ Len(history[DEFAULT_USER]) = 2 /\ publish_count[DEFAULT_USER] = 1
    /\ Len(history["alice"]) = 1
    /\ history["alice"][1].ts > history[DEFAULT_USER][1].ts
    /\ history["alice"][1].ts < history[DEFAULT_USER][2].ts
    /\ contexts[DEFAULT_USER].stabilizer = Replay(history[DEFAULT_USER], config,
                                                  DEFAULT_USER)

(* C16: after n pushes, published or suppressed, the window holds exactly the
   last min(n, capacity) raw samples in arrival order and is never longer
   than the capacity. *)
RawSamples(h) == [i \in 1..Len(h) |-> [ts |-> h[i].ts, bpm |-> h[i].bpm]]

C16_WindowIsRecentSamples ==
    \A u \in UserKeys :
        contexts[u] # NoCtx =>
            /\ Len(contexts[u].stabilizer.samples) <= config.smoothing_window
            /\ contexts[u].stabilizer.samples
                  = LastN(RawSamples(history[u]),
                          Min(Len(history[u]), config.smoothing_window))

C16_Witness ==
    /\ config = TightConfig
    /\ Len(history["alice"]) = 3
    /\ ~history["alice"][2].published
    /\ RawRates(contexts["alice"].stabilizer.samples)
          = <<history["alice"][2].bpm, history["alice"][3].bpm>>
    /\ history["alice"][1].bpm # history["alice"][3].bpm

(* C17: the rate of every candidate, and of every published reading, is the
   arithmetic mean of the raw rates in the window after the sample has been
   appended (the last min(n, capacity) samples), and 0 for an empty window. *)
RECURSIVE SumRates(_)
SumRates(h) == IF h = <<>> THEN 0 ELSE h[1].bpm + SumRates(Tail(h))

IsMeanOf(rate, h, cap) ==
    LET w == LastN(h, Min(Len(h), cap))
    IN  IF w = <<>> THEN rate = 0 ELSE rate * Len(w) = SumRates(w) * Scale

C17_RateIsWindowMean ==
    /\ Pushed =>
          IsMeanOf(last.candidate.bpm, history[last.user], config.smoothing_window)
    /\ \A u \in UserKeys :
          contexts[u] # NoCtx =>
              IsMeanOf(contexts[u].stabilizer.latest.bpm,
                       SubSeq(history[u], 1, LastPublishedAt(history[u])),
                       config.smoothing_window)

C17_Witness ==
    /\ Pushed /\ last.pushed = last.candidate
    /\ Len(LastCtx.stabilizer.samples) = 3
    /\ last.candidate.bpm % Scale # 0
    /\ last.candidate.bpm # last.bpm * Scale

(* C18: classify is total and monotonic.  For non-negative rates r1 <= r2
   both zones are defined and the zone of r1 is not a higher band than the
   zone of r2 in the order rest < light < moderate < hard < peak < redline <
   supra. *)
ZoneNames == <<"rest", "light", "moderate", "hard", "peak", "redline", "supra">>
ZoneRank(z) == CHOOSE i \in 1..Len(ZoneNames) : ZoneNames[i] = z
IsZone(z) == \E i \in 1..Len(ZoneNames) : ZoneNames[i] = z

C18_ClassifyMonotonic ==
    probe.done =>
        /\ IsZone(probe.z1) /\ IsZone(probe.z2)
        /\ probe.r1 <= probe.r2 => ZoneRank(probe.z1) <= ZoneRank(probe.z2)

C18_Witness ==
    /\ probe.done
    /\ probe.r1 < probe.r2
    /\ probe.z1 = "moderate" /\ probe.z2 = "hard"

(* C19 as stated: seven bands with lower-inclusive boundaries at 60, 90, 120,
   150, 180 and 200, used by every classifier of the code base. *)
Boundaries == {60, 90, 120, 150, 180, 200}
BandName(r) == ZoneNames[1 + Cardinality({ b \in Boundaries : b * Scale <= r })]

C19_AsStated ==
    probe.done =>
        /\ probe.z1 = BandName(probe.r1)
        /\ probe.core = probe.z1 /\ probe.compute = probe.z1
        /\ probe.mcp = probe.z1 /\ probe.api = probe.z1

(* C19 amended: HeartState.zone of both heart_core modules and _compute_zone
   partition the rates into the seven bands with lower-inclusive boundaries at
   60, 90, 120, 150, 180 and 200 (59 is rest, 60 is light, 200 is supra);
   HeartState.zone of heart_mcp.py and of heart_api.py agrees with them below
   150 and puts every rate from 150 up in peak. *)
C19_SevenBands ==
    probe.done =>
        /\ probe.z1 = BandName(probe.r1)
        /\ probe.r1 = 59 * Scale => probe.z1 = "rest"
        /\ probe.r1 = 60 * Scale => probe.z1 = "light"
        /\ probe.r1 = 200 * Scale => probe.z1 = "supra"
        /\ probe.core = probe.z1 /\ probe.compute = probe.z1
        /\ probe.mcp = probe.api
        /\ probe.mcp = (IF probe.r1 < 150 * Scale THEN probe.z1 ELSE "peak")

C19_Witness ==
    /\ probe.done
    /\ probe.r1 = 200 * Scale
    /\ probe.z1 = "supra" /\ probe.core = "supra" /\ probe.compute = "supra"
    /\ probe.mcp = "peak"

(* C20 as stated: the mood of every reading returned by ingest or latest is
   resolved: the override of the sample the reading was built from when one
   was given, otherwise the default mood of the reading's zone; never absent. *)
DefaultMoods ==
    <<"chill", "focus", "upbeat", "hype", "intense", "max-energy", "steady-intense">>
DefaultMoodOf(z) == DefaultMoods[ZoneRank(z)]
SamplesOf(dto, u) == { i \in 1..Len(history[u]) : history[u][i].ts = dto.timestamp }
Returned == { latest(contexts, uid) : uid \in UserIds } \cup {IF Pushed THEN last.dto ELSE NoState}

C20_AsStated ==
    \A dto \in Returned \ {NoState} :
        /\ dto.mood # None
        /\ \E i \in SamplesOf(dto, dto.user_id) :
              dto.mood = (IF Truthy(history[dto.user_id][i].mood)
                            THEN history[dto.user_id][i].mood
                            ELSE DefaultMoodOf(dto.zone))

(* C20 amended: the mood of every reading returned by ingest or latest of
   HeartService is the mood override of the sample the reading was built from
   (the sample that triggered the publish), passed through as given: it is
   absent when that sample carried no override, and no zone default is put in
   its place.  Only to_dto of the bus-backed service resolves the mood, to the
   override when given and otherwise to the default mood of the zone. *)
C20_MoodIsOverride ==
    /\ \A dto \in Returned \ {NoState} :
          /\ \E i \in SamplesOf(dto, dto.user_id) :
                dto.mood = history[dto.user_id][i].mood
          /\ inferred_mood(dto.mood, dto.bpm)
               = (IF dto.mood = None THEN DefaultMoodOf(dto.zone) ELSE dto.mood)
    /\ (Pushed /\ last.pushed # NoState) => last.dto.mood = last.mood

C20_Witness ==
    /\ Pushed /\ last.pushed # NoState
    /\ last.user = DEFAULT_USER
    /\ last.mood = None /\ last.dto.mood = None
    /\ inferred_mood(last.dto.mood, last.dto.bpm) = "focus"
    /\ latest(contexts, "alice") # NoState
    /\ latest(contexts, "alice").mood = "calm"

(* C21: after every ingest the repository's cached reading of a user is that
   user's stabilizer's last published reading: the repository is overwritten
   on every publish and never holds anything the stabilizer did not publish. *)
C21_RepoIsLastPublished ==
    \A u \in UserKeys :
        contexts[u] # NoCtx =>
            /\ contexts[u].repo = contexts[u].stabilizer.latest
            /\ contexts[u].repo # NoState
            /\ (Pushed /\ last.user = u /\ last.pushed # NoState) =>
                   contexts[u].repo = last.pushed

C21_Witness ==
    /\ Pushed /\ Suppressed
    /\ publish_count[last.user] = 2
    /\ LastCtx.repo = LastCtx.stabilizer.latest
    /\ LastCtx.repo.timestamp = history[last.user][2].ts
    /\ LastCtx.repo.bpm # last.candidate.bpm

(* C26 as stated: a window capacity of zero is rejected when the Stabilizer is
   constructed, so no stabilizer with an empty-forever window exists and no
   push computes its smoothed rate from an empty window. *)
C26_AsStated ==
    \A u \in UserKeys :
        contexts[u] # NoCtx =>
            /\ config.smoothing_window > 0
            /\ contexts[u].stabilizer.samples # <<>>

(* C27 as stated: there is a stabilizer state and a sample for which
   evaluating the dwell rule before the rate-limit rule gives a different
   publish/suppress outcome than the order of the code. *)
PushDwellFirst(stab, cfg, bpm, mood, user_id, hrv_ms, workout_type, resting_hr, time_of_day, ts) ==
    LET samples == DequeAppend(stab.samples, [ts |-> ts, bpm |-> bpm],
                               cfg.smoothing_window)
        s1 == [stab EXCEPT !.samples = samples]
        candidate == Candidate(samples, mood, user_id, hrv_ms, workout_type,
                               resting_hr, time_of_day, ts)
    IN  IF stab.latest = NoState THEN _record(s1, candidate, ts)
        ELSE
          LET prev == stab.latest
              delta == Abs(candidate.bpm - prev.bpm)
              same_zone == Zone(candidate.bpm) = Zone(prev.bpm)
              time_since_last == ts - stab.last_publish_ts
              zone_changed == ~same_zone
          IN  IF Jitter(cfg, same_zone, delta)
                THEN [stabilizer |-> s1, ret |-> NoState]
              ELSE IF Dwell(cfg, zone_changed, delta, time_since_last)
                THEN [stabilizer |-> s1, ret |-> NoState]
              ELSE IF RateLimit(cfg, zone_changed, delta, time_since_last)
                THEN [stabilizer |-> s1, ret |-> NoState]
              ELSE _record(s1, candidate, ts)

\* Guard inputs around every threshold of the three configurations.
GuardDeltas == { k * Scale + j : k \in {0, 5, 8, 12, 16, 30}, j \in {-1, 0, 1} }
GuardTimes == 0..21
OutcomeCodeOrder(cfg, zc, delta, t) ==
    ~Jitter(cfg, ~zc, delta) /\ ~RateLimit(cfg, zc, delta, t) /\ ~Dwell(cfg, zc, delta, t)
OutcomeDwellFirst(cfg, zc, delta, t) ==
    ~Jitter(cfg, ~zc, delta) /\ ~Dwell(cfg, zc, delta, t) /\ ~RateLimit(cfg, zc, delta, t)
NextSamples == { <<b, d>> : b \in Rates, d \in ClockSteps }
PushOf(P(_, _, _, _, _, _, _, _, _, _), u, x) ==
    P(contexts[u].stabilizer, config, x[1], None, u, None, None, None, None, now + x[2])

C27_AsStated ==
    \/ \E cfg \in Configs, zc \in BOOLEAN, delta \in GuardDeltas, t \in GuardTimes :
          OutcomeCodeOrder(cfg, zc, delta, t) # OutcomeDwellFirst(cfg, zc, delta, t)
    \/ \E u \in UserKeys, x \in NextSamples :
          /\ contexts[u] # NoCtx
          /\ PushOf(PushDwellFirst, u, x) # PushOf(push, u, x)

(* C27 amended: the order of the rate-limit check and the dwell check does
   not change the outcome.  For every stabilizer state and every sample, push
   with the dwell rule evaluated before the rate-limit rule returns the same
   result and leaves the same stabilizer as push in the order of the code: a
   sample is published exactly when none of the three rules holds. *)
C27_OrderIrrelevant ==
    /\ \A cfg \in Configs, zc \in BOOLEAN, delta \in GuardDeltas, t \in GuardTimes :
          OutcomeCodeOrder(cfg, zc, delta, t) = OutcomeDwellFirst(cfg, zc, delta, t)
    /\ \A u \in UserKeys, x \in NextSamples :
          contexts[u] # NoCtx =>
              PushOf(PushDwellFirst, u, x) = PushOf(push, u, x)
    /\ (HadPublished /\ ~Jitter(config, LastSameZone, LastDelta)) =>
          (Suppressed <=> \/ RateLimit(config, ~LastSameZone, LastDelta, LastElapsed)
                          \/ Dwell(config, ~LastSameZone, LastDelta, LastElapsed))

\* A suppressed mild zone change inside the spacing window: both rules hold.
C27_Witness ==
    /\ HadPublished /\ Suppressed
    /\ ~Jitter(config, LastSameZone, LastDelta)
    /\ RateLimit(config, ~LastSameZone, LastDelta, LastElapsed)
    /\ Dwell(config, ~LastSameZone, LastDelta, LastElapsed)
    /\ \E x \in NextSamples :
          /\ PushOf(push, last.user, x).ret # NoState
          /\ PushOf(PushDwellFirst, last.user, x).ret # NoState

(* C28: bounded staleness.  Immediately after any push whose elapsed time
   since the last publish is at least max(minSpacing, minZoneDwell), the last
   published reading is in the same zone as the current smoothed rate and
   differs from it by less than minDelta: the push either published or was
   pure jitter. *)
Max(a, b) == IF a > b THEN a ELSE b
LongSinceLastPublish ==
    /\ HadPublished
    /\ LastElapsed >= Max(config.min_seconds_between_updates, config.min_zone_dwell)

C28_BoundedStaleness ==
    LongSinceLastPublish =>
        /\ Zone(LastCtx.stabilizer.latest.bpm) = Zone(last.candidate.bpm)
        /\ Abs(LastCtx.stabilizer.latest.bpm - last.candidate.bpm)
             < config.min_bpm_delta * Scale
        /\ \/ Published
           \/ Suppressed /\ Jitter(config, LastSameZone, LastDelta)

\* Default thresholds: a mild zone change held back by the dwell rule gets
\* through once 20 s have passed since the last publish.
C28_Witness ==
    /\ config = DefaultConfig
    /\ LongSinceLastPublish
    /\ Published
    /\ ~LastSameZone
    /\ LastDelta < config.fast_zone_delta * Scale
    /\ Len(history[last.user]) = 3
    /\ ~history[last.user][2].published

(* C29: convergence.  If from some point on every pushed raw rate equals a
   constant r and the clock advances by a positive amount between pushes, then
   eventually the last published reading's zone equals classify(r) and from
   then on every push is suppressed, whatever the prior history. *)
SteadyStab == contexts[DEFAULT_USER].stabilizer
Converged ==
    /\ steady # NoSteady
    /\ contexts[DEFAULT_USER] # NoCtx
    /\ SteadyStab.latest # NoState
    /\ SteadyStab.samples # <<>>
    /\ \A i \in 1..Len(SteadyStab.samples) : SteadyStab.samples[i].bpm = steady.bpm
    /\ Zone(SteadyStab.latest.bpm) = Zone(steady.bpm * Scale)
    /\ \A d \in ClockSteps :
          push(SteadyStab, config, steady.bpm, None, DEFAULT_USER, None, None,
               None, None, now + d).ret = NoState

C29_Convergence ==
    /\ (steady # NoSteady) ~> Converged
    /\ [][Converged => (Converged' /\ publish_count' = publish_count)]_vars

\* A steady run that had to publish on its way: the history ended in another
\* zone than classify(r).
C29_Witness ==
    /\ Converged
    /\ ningest = MaxIngests
    /\ nsteady > config.smoothing_window
    /\ Zone(history[DEFAULT_USER][MaxIngests].bpm * Scale) # Zone(steady.bpm * Scale)
    /\ Suppressed
    /\ SteadyStab.latest.bpm = steady.bpm * Scale
    /\ SteadyStab.latest.timestamp > history[DEFAULT_USER][MaxIngests + 1].ts

(* C30: push returns None only when a published reading already exists, so
   the branch of ingest that builds an ad hoc reading from the raw sample is
   never executed: every reading saved to the repository or returned is one
   the stabilizer published, carrying the smoothed rate of its window. *)
MeanOfLastWindow(u, i) ==
    LET n == Min(config.smoothing_window, i)
        w == SubSeq(history[u], i - n + 1, i)
    IN  IF n = 0 THEN 0 ELSE (SumRates(w) * Scale) \div n

C30_NoAdHocReading ==
    Pushed =>
        /\ Suppressed => last.prev # NoState
        /\ ~last.adhoc
        /\ LastCtx.repo = LastCtx.stabilizer.latest
        /\ last.dto = to_dto(LastCtx.stabilizer.latest)
        /\ \E i \in PublishedAt(history[last.user]) :
              /\ history[last.user][i].ts = last.dto.timestamp
              /\ last.dto.bpm = MeanOfLastWindow(last.user, i)

\* A suppressed sample answered with a smoothed reading that differs from it.
C30_Witness ==
    /\ Pushed /\ Suppressed
    /\ last.prev # NoState
    /\ ~last.adhoc
    /\ Len(history[last.user]) = 3
    /\ PublishedAt(history[last.user]) = {1, 2}
    /\ last.dto.bpm = MeanOfLastWindow(last.user, 2)
    /\ last.dto.bpm # history[last.user][2].bpm * Scale
    /\ last.dto.bpm # last.bpm * Scale

(* C23: under concurrent first-contact ingests for the same previously
   unseen user key exactly one Stabilizer/Repository pair is constructed and
   kept, and every one of those ingests pushes its sample into that pair: no
   sample lands in a pair that is then discarded. *)
KeyCalls(u) == SelectSeq(served, LAMBDA c : KeyOf(calls[c].user_id) = u)

C23_FirstContactOnePair ==
    \A u \in UserKeys :
        /\ created[u] <= 1
        /\ KeyCalls(u) # <<>> => (created[u] = 1 /\ contexts[u] # NoCtx)
        /\ contexts[u] # NoCtx =>
              /\ Len(history[u]) = Len(KeyCalls(u))
              /\ LET n == Len(KeyCalls(u))
                     k == Min(n, config.smoothing_window)
                 IN  contexts[u].stabilizer.samples
                        = [i \in 1..k |->
                             [ts |-> history[u][n - k + i].ts,
                              bpm |-> calls[KeyCalls(u)[n - k + i]].bpm]]

\* Two requests for alice were in flight together and ran in the reverse of
\* their order of arrival.
C23_Witness ==
    /\ Len(calls) = 2 /\ served = <<2, 1>>
    /\ calls[1].user_id = "alice" /\ calls[2].user_id = "alice"
    /\ calls[1].bpm # calls[2].bpm
    /\ created["alice"] = 1
    /\ Len(contexts["alice"].stabilizer.samples) = 2
    /\ contexts["alice"].stabilizer.samples[1].bpm = calls[2].bpm
    /\ contexts["alice"].stabilizer.samples[2].bpm = calls[1].bpm

(* C24: each push is atomic with respect to other ingests for the same key.
   For any set of concurrent ingest calls on one key, the resulting window,
   last published reading, last-publish timestamp and repository are those of
   executing the same calls one after another in some order: the order in
   which the event loop ran them. *)
SerialStep(ctx, data, u, ts) ==
    LET tod == IF Truthy(data.time_of_day) THEN data.time_of_day
               ELSE time_of_day_bucket(ts)
        r == push(ctx.stabilizer, config, data.bpm, data.mood, u, data.hrv_ms,
                  data.workout_type, data.resting_hr, tod, ts)
        out == Surface(ctx.repo, r.stabilizer, r.ret, data, u, tod, ts)
    IN  [repo |-> out.repo, stabilizer |-> r.stabilizer]

RECURSIVE SerialRun(_, _, _)
SerialRun(order, u, k) ==
    IF k = 0 THEN NewContext
    ELSE SerialStep(SerialRun(order, u, k - 1), calls[order[k]], u, history[u][k].ts)

C24_Serializable ==
    \A u \in UserKeys :
        /\ contexts[u] = NoCtx <=> KeyCalls(u) = <<>>
        /\ contexts[u] # NoCtx =>
              /\ Len(history[u]) = Len(KeyCalls(u))
              /\ contexts[u] = SerialRun(KeyCalls(u), u, Len(KeyCalls(u)))

\* Three requests of the default user in flight together, run in another order
\* than they arrived, where the order decides the result.
C24_Witness ==
    /\ served = <<3, 1, 2>>
    /\ \A c \in 1..3 : KeyOf(calls[c].user_id) = DEFAULT_USER
    /\ contexts[DEFAULT_USER] = SerialRun(<<3, 1, 2>>, DEFAULT_USER, 3)
    /\ contexts[DEFAULT_USER] # SerialRun(<<1, 2, 3>>, DEFAULT_USER, 3)
    /\ publish_count[DEFAULT_USER] = 2

(* C22: each ingested sample yields at most one publish, and the bus-backed
   service enqueues exactly one event per published reading and none for a
   suppressed sample; the events appear on the bus in the order in which the
   readings were published, also when several ingest calls are in flight. *)
Events == polled \o bus
PubIdx(h) == SelectSeq([i \in 1..Len(h) |-> i], LAMBDA i : h[i].published)
BusHistory == history[DEFAULT_USER]

C22_OneEventPerPublish ==
    /\ [](/\ Len(Events) = Len(PubIdx(BusHistory))
          /\ Len(Events) = publish_count[DEFAULT_USER]
          /\ \A k \in 1..Len(Events) :
                /\ Events[k].timestamp = BusHistory[PubIdx(BusHistory)[k]].ts
                /\ Events[k].bpm = MeanOfLastWindow(DEFAULT_USER, PubIdx(BusHistory)[k])
                /\ k > 1 => Events[k - 1].timestamp < Events[k].timestamp
          /\ legacy.stabilizer.latest # NoState =>
                Events[Len(Events)] = to_dto_core(legacy.stabilizer.latest))
    /\ [][ningest' # ningest =>
            LET published == BusHistory'[Len(BusHistory')].published
            IN  /\ Len(BusHistory') = Len(BusHistory) + 1
                /\ publish_count'[DEFAULT_USER]
                     = publish_count[DEFAULT_USER] + (IF published THEN 1 ELSE 0)
                /\ published => bus' = Append(bus, to_dto_core(legacy'.stabilizer.latest))
                /\ ~published => bus' = bus
         ]_vars

\* Three requests in flight together, run in another order than they arrived:
\* two of them published, one was suppressed, and the forwarder has taken the
\* first event.
C22_Witness ==
    /\ served = <<2, 3, 1>>
    /\ PubIdx(BusHistory) = <<1, 3>>
    /\ Len(polled) = 1 /\ Len(bus) = 1
    /\ polled[1].timestamp = BusHistory[1].ts
    /\ bus[1].timestamp = BusHistory[3].ts
    /\ bus[1] = to_dto_core(legacy.repo)

(* C25: a non-numeric or non-finite rate (NaN, +inf, -inf) is rejected at the
   ingestion boundary: it never becomes the stored or published reading. *)
C25_AsStated ==
    /\ mcp_state # NoMcp => mcp_state.bpm.cls = "finite"
    /\ \A k \in 1..Len(event_queue) : event_queue[k].bpm.cls = "finite"

\* What the boundary does keep out: a body that is no JSON, a missing or null
\* rate, and a rate that is a list or a text float() cannot read.
C25_NonNumericRejected ==
    [][\A body \in McpBodies, d \in ClockSteps :
          (McpIngest(body, d)
             /\ (body.t # "object"
                   \/ body.bpm.t \in {"missing", "null", "list"}
                   \/ (body.bpm.t = "string" /\ body.bpm.s = "abc")))
          => (mcp_state' = mcp_state /\ event_queue' = event_queue
                /\ replies'[Len(replies')] # "ok")]_vars

\* A NaN rate has been stored and queued, answered with "ok".
C25_NonFiniteStored ==
    /\ mcp_state # NoMcp
    /\ mcp_state.bpm = NaN
    /\ event_queue # <<>>
    /\ event_queue[Len(event_queue)].bpm = NaN
    /\ event_queue[Len(event_queue)].zone = "peak"
    /\ replies[Len(replies)] = "ok"

(* C31: in every reachable stabilizer state with a published reading the
   last-publish timestamp equals the timestamp of the last published reading,
   and, the clock never going backwards, the timestamps of successive
   published readings are non-decreasing. *)
C31_PublishStampsAgree ==
    /\ [](\A u \in UserKeys :
            (contexts[u] # NoCtx /\ contexts[u].stabilizer.latest # NoState) =>
               LET stab == contexts[u].stabilizer
                   idx == PubIdx(history[u])
               IN  /\ stab.last_publish_ts = stab.latest.timestamp
                   /\ idx # <<>>
                   /\ stab.latest.timestamp = history[u][idx[Len(idx)]].ts
                   /\ \A k \in 1..(Len(idx) - 1) :
                         history[u][idx[k]].ts <= history[u][idx[k + 1]].ts)
    /\ [][now <= now' /\
          \A u \in UserKeys :
             (/\ contexts[u] # NoCtx
              /\ contexts[u].stabilizer.latest # NoState
              /\ contexts'[u] # NoCtx
              /\ contexts'[u].stabilizer.latest # NoState)
             => contexts[u].stabilizer.latest.timestamp
                  <= contexts'[u].stabilizer.latest.timestamp]_vars

\* One user has published twice, at different times, with a suppressed sample
\* in between.
C31_Witness ==
    \E u \in UserKeys :
       /\ contexts[u] # NoCtx
       /\ PubIdx(history[u]) = <<1, 3>>
       /\ contexts[u].stabilizer.last_publish_ts = history[u][3].ts
       /\ contexts[u].stabilizer.latest.timestamp > history[u][1].ts

(* C32: the event forwarder delivers to the agent only events with strictly
   increasing timestamps: an event taken from the bus whose timestamp is not
   greater than the last one accepted is dropped without being sent, and an
   event with a greater timestamp is sent exactly once. *)
Fresh(taken, k) == \A j \in 1..(k - 1) : taken[j].timestamp < taken[k].timestamp
FreshIdx(taken) == SelectSeq([i \in 1..Len(taken) |-> i], LAMBDA i : Fresh(taken, i))
\* log holds one entry for each fresh event of taken, in the order taken, and
\* no entry for any other event.
SentAreTheFresh(log, taken) ==
    /\ Len(log) = Len(FreshIdx(taken))
    /\ \A i \in 1..Len(log) : log[i].event = taken[FreshIdx(taken)[i]]

C32_AsStated == SentAreTheFresh(sent, polled)

(* C33: a failure of agent_app.send for one event does not stop the
   forwarder: the loop goes on taking and forwarding later events, and the
   failed event is not retried, its timestamp being already recorded as
   seen. *)
C33_SendFailureTolerated ==
    /\ agent_fwd.running
    /\ SentAreTheFresh(agent_sent, agent_taken)
    /\ \A i \in 1..Len(agent_sent) :
          /\ agent_sent[i].event.timestamp <= agent_fwd.last_ts
          /\ \A j \in 1..Len(agent_sent) :
                i < j => agent_sent[i].event.timestamp < agent_sent[j].event.timestamp

\* The send of the first event raised; the forwarder then dropped an event
\* with the same timestamp and delivered a later one.
C33_Witness ==
    /\ Len(agent_taken) = 3
    /\ agent_taken[2].timestamp = agent_taken[1].timestamp
    /\ agent_taken[3].timestamp > agent_taken[1].timestamp
    /\ Len(agent_sent) = 2
    /\ agent_sent[1].raised /\ agent_sent[1].event = agent_taken[1]
    /\ ~agent_sent[2].raised /\ agent_sent[2].event = agent_taken[3]
    /\ agent_fwd.running

(* C34: the /ingest endpoint requests an agent suggestion if and only if the
   stabilizer published a new stable reading for the ingested sample: the
   response has state_changed true and a suggestion exactly when it
   published, and state_changed false with no suggestion when the sample was
   suppressed. *)
C34_AsStated ==
    api_reply # NoReply =>
       /\ api_reply.status = "ok"
       /\ api_reply.state_changed <=> (last.pushed # NoState)
       /\ api_reply.suggestion <=> (last.pushed # NoState)

(* C35: the zone computed by the direct-suggestion path (_compute_zone)
   equals the zone of the stabilizer's readings (HeartState.zone) for every
   rate, so /suggest and /ingest never label the same rate differently when no
   explicit zone is supplied. *)
C35_SameZoneOnBothPaths ==
    probe.done =>
        /\ IsZone(probe.compute)
        /\ probe.compute = probe.z1
        /\ _compute_zone(probe.r2) = probe.z2
        /\ _compute_zone(probe.r1) = to_dto(HeartState(probe.r1, DEFAULT_USER, None, None,
                                                       None, None, None, now)).zone

\* A rate on the boundary between peak and redline, labelled redline by both.
C35_Witness ==
    /\ probe.done
    /\ probe.r1 = 180 * Scale
    /\ probe.compute = "redline"
    /\ probe.z1 = "redline"
    /\ probe.r2 = 180 * Scale - 1
    /\ probe.z2 = "peak"

(* C36: a missing or empty user id is mapped to the single key "default" by
   both ingest and latest: an ingest without a user id and an ingest with
   user id "default" feed the same stabilizer, and latest() without a user id
   returns that stabilizer's last published reading. *)
NamesDefault(user_id) == user_id \in {None, "", DEFAULT_USER}
\* The requests served so far that name the default user, in the order served.
ServedForDefault ==
    SelectSeq([i \in 1..Len(served) |-> calls[served[i]]],
              LAMBDA data : NamesDefault(data.user_id))
DefaultReading ==
    IF contexts[DEFAULT_USER] = NoCtx THEN NoState
    ELSE to_dto(contexts[DEFAULT_USER].stabilizer.latest)

C36_DefaultKey ==
    /\ [](/\ Len(history[DEFAULT_USER]) = Len(ServedForDefault)
          /\ \A i \in 1..Len(ServedForDefault) :
                history[DEFAULT_USER][i].bpm = ServedForDefault[i].bpm
          /\ created[DEFAULT_USER] <= 1
          /\ \A uid \in {None, "", DEFAULT_USER} : latest(contexts, uid) = DefaultReading
          /\ contexts[DEFAULT_USER] # NoCtx => DefaultReading.user_id = DEFAULT_USER)
    /\ [][(seen' # seen /\ NamesDefault(seen'.user_id)) => seen'.ret = DefaultReading]_vars

\* Three samples, sent with no id, with the id "default" and with an empty id,
\* sit in the one window of the default key, and a read with an empty id has
\* returned the reading published from them.
C36_Witness ==
    /\ Len(served) = 3
    /\ { calls[c].user_id : c \in 1..3 } = {None, "", DEFAULT_USER}
    /\ Len(contexts[DEFAULT_USER].stabilizer.samples) = 3
    /\ contexts["alice"] = NoCtx
    /\ seen # NoSeen
    /\ seen.user_id = ""
    /\ seen.ret = DefaultReading
    /\ seen.ret # NoState

====
